---- MODULE Spec2Model ----
(***************************************************************************)
(* The Primary of node/narwhal (src/node/narwhal/src/primary.rs) as a      *)
(* state machine.  One step of the model is one critical section of the    *)
(* code: a statement that takes a lock (committee, proposed_batch) or      *)
(* calls the internally synchronised Storage / Pending, together with the  *)
(* lock-free code that follows it up to the next such statement.           *)
(*                                                                         *)
(* Tasks: the batch proposer (start_batch_proposer), the BatchSignature    *)
(* handler, the BatchCertified handler, the CertificateResponse handler    *)
(* with the ingestion tasks it spawns, and the BatchPropose handler.       *)
(*                                                                         *)
(* Locks.  committee is write-held by update_committee_to_next_round from  *)
(* its first statement to its return; proposed_batch is read-held by the   *)
(* signature handler over the whole `if let` of the quorum test.  Every    *)
(* other guard lives for one statement, i.e. inside one step.              *)
(***************************************************************************)
EXTENDS Integers, Sequences, FiniteSets, TLC

(* ------------------------------ bounds -------------------------------- *)
\* The clock runs from 0 to MaxNow seconds.
MaxNow == 2
\* A co-signer can issue signatures with timestamps 0..MaxSigStamp.
MaxSigStamp == 0
\* Ingestion tasks the CertificateResponse handler can have running at once.
MaxSpawned == 1
DeepSpawned == 2
\* Worker shards in the specification of the drain (MAX_WORKERS is a
\* compile-time constant of the build).
DrainWorkers == 2
\* Longest queue a worker hands out in the specification of the drain.
MaxQueue == 1

(* ------------------------- program constants -------------------------- *)
\* Seconds after which a proposed batch expires (value scaled to the clock).
MAX_EXPIRATION_TIME_IN_SECS == 1
\* Seconds a proposed header's timestamp may lie in the future (scaled).
MAX_TIMESTAMP_DELTA_IN_SECS == 1
\* Number of worker shards started by run().
MAX_WORKERS == 1

(* ---------------------- committee and identities ---------------------- *)
\* The address of this validator (gateway.account()).
Self == "v0"
\* Committee: the members (each of stake 1); it is the same in every round.
Members == {"v0", "v1", "v2", "v3"}
\* An address that is not in the committee.
Outsider == "x"
\* The connected peer sockets, named by the address behind them; "d" is a
\* socket the resolver knows no address for.  "v3" is not connected.
Peers == {"v1", "v2", "x", "d"}

\* gateway.resolver().get_address(peer_ip): the empty set stands for None.
get_address(peer_ip) == IF peer_ip = "d" THEN {} ELSE {peer_ip}

\* Committee::is_committee_member
is_committee_member(address) == address \in Members

\* Committee::quorum_threshold: N - f of N = 3f + 1 units of stake.
quorum_threshold == Cardinality(Members) - ((Cardinality(Members) - 1) \div 3)

\* Committee::is_quorum_threshold_reached: the stake of the given addresses.
is_quorum_threshold_reached(addresses) ==
    Cardinality(addresses \cap Members) >= quorum_threshold

(* --------------------- batches, signatures, ids ----------------------- *)
\* Batch / BatchHeader::batch_id: derived from the header's content.
batch_id(h) == <<h.author, h.round, h.timestamp, h.tids, h.prev>>

\* Signature::verify(address, [batch_id, timestamp]).
verify(signature, address, bid, stamp) ==
    /\ signature.signer = address
    /\ signature.bid = bid
    /\ signature.stamp = stamp

\* Signature::to_address
to_address(signature) == signature.signer

\* BatchCertificate::certificate_id: derived from batch id and signatures.
certificate_id(c) == <<batch_id(c.header), c.signatures>>

VARIABLES
    now,          \* the clock, now()
    round,        \* committee.round()
    committees,   \* Storage: rounds a committee is stored for
    certs,        \* Storage: the certificates
    proposed,     \* proposed_batch: <<>> is None, <<[batch, signatures]>> is Some
    workers,      \* worker id -> its queue of transmissions [id, data]
    sent,         \* the events handed to the gateway
    storedTx,     \* Storage: the ids of the stored transmissions
    pool,         \* the certificates peers have to deliver
    headers,      \* the batch headers peers have to propose
    pending,      \* Pending: (certificate id, peer asked for it, round at insertion)
    tick,         \* the batch proposer task
    sig,          \* the BatchSignature handler task
    ing,          \* the BatchCertified handler and the spawned ingestion tasks
    prop,         \* the BatchPropose handler task
    resp          \* the CertificateResponse handler: the last response and its outcome

vars == <<now, round, committees, certs, proposed, workers, sent, storedTx, pool,
          headers, pending, tick, sig, ing, prop, resp>>

(* ------------------------------ Storage ------------------------------- *)
\* Storage::contains_batch
contains_batch(bid) == \E c \in certs : batch_id(c.header) = bid

\* Storage::contains_certificate
contains_certificate(id) == \E c \in certs : certificate_id(c) = id

\* Storage::get_certificates_for_round
get_certificates_for_round(r) == {c \in certs : c.header.round = r}

\* Storage::get_committee_for_round: is a committee stored for round r
has_committee_for_round(r) == r \in committees

\* Storage::gc_round
gc_round == 0

\* Storage::max_gc_rounds
max_gc_rounds == 2

(* ------------------------------- locks -------------------------------- *)
\* Program points inside update_committee_to_next_round, after the write
\* guard of line 791 is taken and before the function returns.
UpdatePoints == {"upd_slot", "upd_ret"}

\* committee.write() is held by some task.
CommitteeWriteHeld ==
    \/ sig.pc \in UpdatePoints
    \/ \E t \in DOMAIN ing : ing[t].pc \in UpdatePoints

\* proposed_batch.read() is held across steps (the `if let` of line 414).
SlotReadHeld == sig.pc = "quorum"

(* --------------------- proposed-batch expiration ---------------------- *)
\* i64::saturating_sub on the non-negative clock values of the model.
saturating_sub(a, b) == IF a - b < 0 THEN 0 ELSE a - b

\* A variant of is_expired that never finds the batch expired (C12 depends on
\* the test of line 689).
is_expired_never(slot) == FALSE

\* check_proposed_batch_for_expiration, the read half: is_expired.
is_expired(slot) ==
    /\ slot # <<>>
    /\ saturating_sub(now, slot[1].batch.timestamp) > MAX_EXPIRATION_TIME_IN_SECS

(* ---------------------------- the proposer ---------------------------- *)
TickIdle == [pc |-> "sleep", round |-> 0, batch |-> <<>>]

\* A variant of propose_returns_early that never returns early (C4 depends
\* on the early return).
propose_returns_early_never(slot) == FALSE

\* propose_batch line 181: a batch is being proposed already.
propose_returns_early(slot) == slot # <<>>

\* A variant of propose_is_ready that passes for every round (C21 depends on
\* the quorum test of lines 196-207).
propose_is_ready_always(previous_round, previous_certificates) == TRUE

\* propose_batch lines 194-207: the ready test on the previous round.
propose_is_ready(previous_round, previous_certificates) ==
    \/ previous_round = 0
    \/ /\ previous_round > 0
       /\ is_quorum_threshold_reached({c.header.author : c \in previous_certificates})

\* propose_batch lines 198-200: bail when the previous committee is unknown.
propose_bails(previous_round) ==
    previous_round > 0 /\ ~has_committee_for_round(previous_round)

\* IndexMap::extend over the drained workers, in worker order: a later
\* entry with a key already present replaces the value and keeps the position.
RECURSIVE extend(_, _)
extend(map, entries) ==
    IF entries = <<>> THEN map
    ELSE LET e == Head(entries)
             hit == {i \in 1..Len(map) : map[i].id = e.id}
             next == IF hit = {} THEN Append(map, e)
                     ELSE [i \in 1..Len(map) |-> IF i \in hit THEN e ELSE map[i]]
         IN  extend(next, Tail(entries))

\* propose_batch lines 218-223: drain every worker of the workers vector,
\* in ascending worker id, into one map.
RECURSIVE drain_all(_, _)
drain_all(map, w) ==
    IF w \notin DOMAIN workers THEN map ELSE drain_all(extend(map, workers[w]), w + 1)

\* Batch::new (line 230): the batch of this validator for the given round.
new_batch(r, transmissions, previous_certificates) ==
    [author |-> Self, round |-> r, timestamp |-> now,
     transmissions |-> transmissions,
     previous |-> previous_certificates]

\* Batch::to_header
to_header(batch) ==
    [author |-> batch.author, round |-> batch.round, timestamp |-> batch.timestamp,
     tids |-> {batch.transmissions[i].id : i \in 1..Len(batch.transmissions)},
     prev |-> {certificate_id(c) : c \in batch.previous}]

\* start_batch_proposer lines 672-674 with check_proposed_batch_for_expiration
\* lines 686-690: wake up and read whether the slot has expired.
TickCheckExpiration ==
    /\ tick.pc = "sleep"
    /\ tick' = [tick EXCEPT !.pc = IF is_expired(proposed) THEN "expire" ELSE "propose"]
    /\ UNCHANGED <<now, round, committees, certs, proposed, workers, sent, sig, ing, prop, pending, storedTx, pool, headers, resp>>

\* check_proposed_batch_for_expiration lines 692-694: clear the slot.
TickClearExpired ==
    /\ tick.pc = "expire"
    /\ ~SlotReadHeld
    /\ proposed' = <<>>
    /\ tick' = [tick EXCEPT !.pc = "propose"]
    /\ UNCHANGED <<now, round, committees, certs, workers, sent, sig, ing, prop, pending, storedTx, pool, headers, resp>>

\* propose_batch lines 180-183.
ProposeCheckSlot ==
    /\ tick.pc = "propose"
    /\ tick' = IF propose_returns_early(proposed) THEN TickIdle
               ELSE [tick EXCEPT !.pc = "round"]
    /\ UNCHANGED <<now, round, committees, certs, proposed, workers, sent, sig, ing, prop, pending, storedTx, pool, headers, resp>>

\* propose_batch line 186: read the committee round.
ProposeReadRound ==
    /\ tick.pc = "round"
    /\ ~CommitteeWriteHeld
    /\ tick' = [tick EXCEPT !.pc = "ready", !.round = round]
    /\ UNCHANGED <<now, round, committees, certs, proposed, workers, sent, sig, ing, prop, pending, storedTx, pool, headers, resp>>

\* propose_batch lines 188-232: the ready test, the drain of the workers,
\* the new batch and its broadcast.
ProposeBuild ==
    /\ tick.pc = "ready"
    /\ LET previous_round == saturating_sub(tick.round, 1)
           previous_certificates == get_certificates_for_round(previous_round)
       IN  IF propose_bails(previous_round)
              \/ ~propose_is_ready(previous_round, previous_certificates)
           THEN /\ tick' = TickIdle
                /\ UNCHANGED <<workers, sent>>
           ELSE LET batch == new_batch(tick.round, drain_all(<<>>, 0),
                                       previous_certificates)
                IN  /\ workers' = [w \in DOMAIN workers |-> <<>>]
                    /\ sent' = sent \cup {[type |-> "BatchPropose", to |-> "all",
                                           header |-> to_header(batch)]}
                    /\ tick' = [tick EXCEPT !.pc = "store", !.batch = <<batch>>]
    /\ UNCHANGED <<now, round, committees, certs, proposed, sig, ing, prop, pending, storedTx, pool, headers, resp>>

\* propose_batch line 234: set the proposed batch.
ProposeStore ==
    /\ tick.pc = "store"
    /\ ~SlotReadHeld
    /\ proposed' = <<[batch |-> tick.batch[1], signatures |-> {}]>>
    /\ tick' = TickIdle
    /\ UNCHANGED <<now, round, committees, certs, workers, sent, sig, ing, prop, pending, storedTx, pool, headers, resp>>

\* The clock: a second passes.
AdvanceClock ==
    /\ now < MaxNow
    /\ now' = now + 1
    /\ UNCHANGED <<round, committees, certs, proposed, workers, sent, tick, sig, ing, prop, pending, storedTx, pool, headers, resp>>

(* ----------------- update_committee_to_next_round --------------------- *)
\* Committee::to_next_round: the round of the next committee.
to_next_round(r) == r + 1

\* Line 799: the value written to the proposed batch.
update_slot_value(slot) == <<>>

\* Lines 791-797: take the committee write guard, store and install the
\* next committee.  The new round is readable once the guard is released.
UpdateAcquire ==
    /\ ~CommitteeWriteHeld
    /\ round' = to_next_round(round)
    /\ committees' = committees \cup {to_next_round(round)}

\* Line 799: clear the proposed batch (under its write guard).
UpdateClearSlot ==
    /\ ~SlotReadHeld
    /\ proposed' = update_slot_value(proposed)

(* ---------------------- the signature handler ------------------------- *)
SigIdle(log) ==
    [pc |-> "recv", bid |-> <<>>, peer |-> "", signature |-> <<>>,
     tested |-> <<>>, taken |-> <<>>, log |-> log]

\* The batch ids this validator has broadcast a proposal for.
ProposedIds == {batch_id(e.header) : e \in {x \in sent : x.type = "BatchPropose"}}

\* The batch ids a BatchSignature event can name.
SignedIds == ProposedIds \cup {<<"unknown">>}

\* The signatures an event for batch id bid can carry: made by a connected
\* validator (the sender's own or a replayed one), with any timestamp.
SignaturesFor(bid) ==
    {[signer |-> a, bid |-> bid, stamp |-> st] :
        a \in Peers \cap Members, st \in 0..MaxSigStamp}

\* A variant of signature_mismatch that compares only for a populated slot
\* (C9 depends on the empty-slot case).
signature_mismatch_populated(bid, slot) ==
    slot # <<>> /\ bid # batch_id(to_header(slot[1].batch))

\* Line 378: the batch id does not match the currently proposed batch.
signature_mismatch(bid, slot) ==
    slot = <<>> \/ bid # batch_id(to_header(slot[1].batch))

\* Lines 380-383: what is logged for a mismatch.
mismatch_log(bid) ==
    IF contains_batch(bid) THEN "already certified" ELSE "unknown batch"

\* Lines 387-400: resolve the peer, check membership, verify the signature.
signature_rejection(peer_ip, signature) ==
    IF get_address(peer_ip) = {} THEN "disconnected peer"
    ELSE LET address == CHOOSE a \in get_address(peer_ip) : TRUE
         IN  IF ~is_committee_member(address) THEN "non-committee peer"
             ELSE IF ~verify(signature, address, signature.bid, signature.stamp)
                  THEN "invalid signature"
                  ELSE ""

\* A variant of signer_addresses without the author's own signature (C27
\* depends on the chain of line 416).
signer_addresses_without_author(batch, signatures) ==
    {to_address(s) : s \in signatures}

\* Line 416: the addresses of the signatures and of the batch's author.
signer_addresses(batch, signatures) ==
    {to_address(s) : s \in signatures} \cup {batch.author}

\* BatchCertificate::new
new_certificate(header, signatures) ==
    [header |-> header, signatures |-> signatures]

\* BatchCertificate::new verifies each signature over the header's batch id;
\* the result when one does not verify is left open (either outcome).
certificate_outcomes(header, signatures) ==
    IF \A s \in signatures : verify(s, s.signer, batch_id(header), s.stamp)
    THEN {TRUE} ELSE {TRUE, FALSE}

\* Line 375: take the next BatchSignature from the channel.  The event's
\* batch id is drawn here; its sender and signature are drawn where the code
\* first reads them (SigValidate).
SigReceive ==
    /\ sig.pc = "recv"
    /\ \E bid \in SignedIds :
          sig' = [SigIdle("") EXCEPT !.pc = "check", !.bid = <<bid>>]
    /\ UNCHANGED <<now, round, committees, certs, proposed, workers, sent, pending,
                   storedTx, pool, headers, tick, ing, prop, resp>>

\* Lines 377-385: drop a signature that is not for the proposed batch.
SigCheck ==
    /\ sig.pc = "check"
    /\ sig' = IF signature_mismatch(sig.bid[1], proposed)
              THEN SigIdle(mismatch_log(sig.bid[1]))
              ELSE [sig EXCEPT !.pc = "validate"]
    /\ UNCHANGED <<now, round, committees, certs, proposed, workers, sent, pending,
                   storedTx, pool, headers, tick, ing, prop, resp>>

\* Lines 386-400: the committee is read at line 392 for a resolved peer.
SigValidate ==
    /\ sig.pc = "validate"
    /\ \E p \in Peers, s \in SignaturesFor(sig.bid[1]) :
          /\ get_address(p) # {} => ~CommitteeWriteHeld
          /\ sig' = IF signature_rejection(p, s) # ""
                    THEN SigIdle(signature_rejection(p, s))
                    ELSE [sig EXCEPT !.pc = "expire", !.peer = p, !.signature = <<s>>]
    /\ UNCHANGED <<now, round, committees, certs, proposed, workers, sent, pending,
                   storedTx, pool, headers, tick, ing, prop, resp>>

\* Line 403 with lines 686-690: read whether the slot has expired.
SigCheckExpiration ==
    /\ sig.pc = "expire"
    /\ sig' = [sig EXCEPT !.pc = IF is_expired(proposed) THEN "clear" ELSE "insert"]
    /\ UNCHANGED <<now, round, committees, certs, proposed, workers, sent, pending,
                   storedTx, pool, headers, tick, ing, prop, resp>>

\* Lines 692-694: clear the slot.
SigClearExpired ==
    /\ sig.pc = "clear"
    /\ proposed' = <<>>
    /\ sig' = [sig EXCEPT !.pc = "insert"]
    /\ UNCHANGED <<now, round, committees, certs, workers, sent, pending,
                   storedTx, pool, headers, tick, ing, prop, resp>>

\* Lines 406-410: add the signature to whatever batch is in the slot.
SigInsert ==
    /\ sig.pc = "insert"
    /\ proposed' = IF proposed = <<>> THEN proposed
                   ELSE <<[proposed[1] EXCEPT
                             !.signatures = @ \cup {sig.signature[1]}]>>
    /\ sig' = [sig EXCEPT !.pc = "ready"]
    /\ UNCHANGED <<now, round, committees, certs, workers, sent, pending,
                   storedTx, pool, headers, tick, ing, prop, resp>>

\* Line 414: take the read guard of the slot; an empty slot is not ready.
SigReadSlot ==
    /\ sig.pc = "ready"
    /\ sig' = IF proposed = <<>> THEN SigIdle("not ready")
              ELSE [sig EXCEPT !.pc = "quorum"]
    /\ UNCHANGED <<now, round, committees, certs, proposed, workers, sent, pending,
                   storedTx, pool, headers, tick, ing, prop, resp>>

\* Lines 416-427: under the slot's read guard, read the committee and test
\* the quorum; the guards are released at the end of the `if let`.
SigQuorum ==
    /\ sig.pc = "quorum"
    /\ ~CommitteeWriteHeld
    /\ sig' = IF is_quorum_threshold_reached(
                    signer_addresses(proposed[1].batch, proposed[1].signatures))
              THEN [sig EXCEPT !.pc = "take", !.tested = proposed]
              ELSE SigIdle("not ready")
    /\ UNCHANGED <<now, round, committees, certs, proposed, workers, sent, pending,
                   storedTx, pool, headers, tick, ing, prop, resp>>

\* Line 432: proposed_batch.write().take().unwrap() panics on an empty slot.
SigTake ==
    /\ sig.pc = "take"
    /\ IF proposed = <<>>
       THEN /\ sig' = [sig EXCEPT !.pc = "panicked"]
            /\ UNCHANGED proposed
       ELSE /\ sig' = [sig EXCEPT !.pc = "certify", !.taken = proposed]
            /\ proposed' = <<>>
    /\ UNCHANGED <<now, round, committees, certs, workers, sent, pending,
                   storedTx, pool, headers, tick, ing, prop, resp>>

\* A variant of certified_event that broadcasts the certificate without its
\* signatures (C16 depends on the broadcast of the stored certificate).
certified_event_unsigned(certificate) ==
    [type |-> "BatchCertified", to |-> "all",
     certificate |-> [certificate EXCEPT !.signatures = {}]]

\* Lines 451-454: the event that carries the certificate to all validators.
certified_event(certificate) ==
    [type |-> "BatchCertified", to |-> "all", certificate |-> certificate]

\* Lines 434-454: build the certificate, store it, broadcast it.
SigCertify ==
    /\ sig.pc = "certify"
    /\ LET header == to_header(sig.taken[1].batch)
           certificate == new_certificate(header, sig.taken[1].signatures)
       IN  \E ok \in certificate_outcomes(header, sig.taken[1].signatures) :
              IF ~ok
              THEN /\ sig' = SigIdle("failed certificate")
                   /\ UNCHANGED <<certs, sent>>
              ELSE IF contains_certificate(certificate_id(certificate))
              THEN /\ sig' = SigIdle("storage error")
                   /\ UNCHANGED <<certs, sent>>
              ELSE /\ certs' = certs \cup {certificate}
                   /\ sent' = sent \cup {certified_event(certificate)}
                   /\ sig' = [sig EXCEPT !.pc = "advance"]
    /\ UNCHANGED <<now, round, committees, proposed, workers, pending,
                   storedTx, pool, headers, tick, ing, prop, resp>>

\* Lines 456-458 and 791-797.
SigAdvance ==
    /\ sig.pc = "advance"
    /\ UpdateAcquire
    /\ sig' = [sig EXCEPT !.pc = "upd_slot"]
    /\ UNCHANGED <<now, certs, proposed, workers, sent, pending, storedTx, pool, headers, tick, ing, prop, resp>>

\* Line 799.
SigUpdateSlot ==
    /\ sig.pc = "upd_slot"
    /\ UpdateClearSlot
    /\ sig' = [sig EXCEPT !.pc = "upd_ret"]
    /\ UNCHANGED <<now, round, committees, certs, workers, sent, pending,
                   storedTx, pool, headers, tick, ing, prop, resp>>

\* Lines 801-803 and 459: release the committee and return.
SigUpdateReturn ==
    /\ sig.pc = "upd_ret"
    /\ sig' = SigIdle("certified")
    /\ UNCHANGED <<now, round, committees, certs, proposed, workers, sent, pending,
                   storedTx, pool, headers, tick, ing, prop, resp>>

(* ----------------------- certificate ingestion ------------------------ *)
\* The ingestion tasks: the BatchCertified handler and the tasks spawned
\* by the CertificateResponse handler (line 549).
TaskIds == 0..MaxSpawned
IngTasks == DOMAIN ing
Spawned == IngTasks \ {0}

IngIdle == [pc |-> "idle", peer |-> "", certificate |-> <<>>, waiting |-> {}]

\* A header as a peer builds it.
peer_header(author, r, prev) ==
    [author |-> author, round |-> r, timestamp |-> 0, tids |-> {}, prev |-> prev]

\* A certificate as a peer builds it, signed by the given validators.
peer_certificate(author, r, prev, signers) ==
    LET h == peer_header(author, r, prev)
    IN  [header |-> h,
         signatures |-> {[signer |-> a, bid |-> batch_id(h), stamp |-> 0] : a \in signers}]

\* The certificates peers deliver (BatchCertified, CertificateResponse).
CertA == peer_certificate("v1", 1, {}, {"v2", "v3"})
CertB == peer_certificate("v2", 1, {}, {"v1", "v3"})
CertC == peer_certificate("v1", 2, {certificate_id(CertA), certificate_id(CertB)},
                          {"v2", "v3"})
CertX == peer_certificate(Outsider, 2, {certificate_id(CertA)}, {})
PeerCertificates == {CertA, CertB, CertC, CertX}

\* A third certificate of round 1: with CertA and CertB its author makes a
\* quorum of round-1 authors.
CertD == peer_certificate("v3", 1, {}, {"v1", "v2"})

\* A certificate of round 1 whose header names two transmissions.
CertT ==
    LET h == [peer_header("v2", 1, {}) EXCEPT !.tids = {"t1", "t2"}]
    IN  [header |-> h,
         signatures |-> {[signer |-> a, bid |-> batch_id(h), stamp |-> 0] :
                            a \in {"v1", "v3"}}]

\* A certificate three rounds ahead of the first round, without previous
\* certificates.
CertF == peer_certificate("v3", 4, {}, {"v1", "v2"})

\* A certificate of round 2 whose header names a stored transmission and,
\* as previous certificates, CertA and CertF (the rounds of the previous
\* certificates are not validated, line 490).
CertZ ==
    LET h == [peer_header("v2", 2, {certificate_id(CertA), certificate_id(CertF)})
                 EXCEPT !.tids = {"t1"}]
    IN  [header |-> h,
         signatures |-> {[signer |-> a, bid |-> batch_id(h), stamp |-> 0] :
                            a \in {"v1", "v3"}}]

\* A certificate of round 3 on top of CertX: its backfill is two levels deep.
CertG == peer_certificate("v1", 3, {certificate_id(CertX)}, {"v2", "v3"})

\* The peers that deliver certificates.
CertificatePeers == {"v1"}

\* Line 484: the certificate is at or below the GC round.
below_gc(certificate) == certificate.header.round <= gc_round

\* fetch_missing_transmissions lines 707-709: the ids to ask the workers for.
missing_transmissions(header) == {id \in header.tids : id \notin storedTx}

\* Pending: an entry is (certificate id, peer, round); the round is that of the
\* committee when the entry was inserted, a record no operation reads.
\* Pending::contains
pending_contains(id) == \E e \in pending : e[1] = id

\* Pending::get: the peers the id was requested from.
pending_get(id) == {e[2] : e \in {x \in pending : x[1] = id}}

\* A variant of missing_certificates that does not consult Storage (C14
\* depends on the test of line 749).
missing_certificates_unstored(header) ==
    {id \in header.prev : ~pending_contains(id)}

\* fetch_missing_certificates lines 747-749: the ids to request.
missing_certificates(header) ==
    {id \in header.prev : ~pending_contains(id) /\ ~contains_certificate(id)}

\* Line 496: previous certificates are fetched above the GC round only.
fetches_previous(certificate) == certificate.header.round > gc_round + 1

\* Lines 480-494 with 702-727: the GC check and the requests for the
\* missing transmissions, for a certificate received from peer_ip.
ingest_begin(peer_ip, certificate) ==
    IF below_gc(certificate) THEN IngIdle
    ELSE [pc |-> IF missing_transmissions(certificate.header) = {}
                 THEN "fetch_certs" ELSE "await_tx",
          peer |-> peer_ip, certificate |-> <<certificate>>,
          waiting |-> missing_transmissions(certificate.header)]

\* Lines 598-604: the BatchCertified handler takes the next certificate.
CertifiedReceive ==
    /\ ing[0].pc = "idle"
    /\ \E p \in CertificatePeers, c \in pool :
          ing' = [ing EXCEPT ![0] = ingest_begin(p, c)]
    /\ UNCHANGED <<now, round, committees, certs, proposed, workers, sent, pending,
                   storedTx, pool, headers, tick, sig, prop, resp>>

\* A spawned task starts process_batch_certificate_from_peer (line 550).
IngStart(t) ==
    /\ ing[t].pc = "start"
    /\ ing' = [ing EXCEPT ![t] = ingest_begin(ing[t].peer, ing[t].certificate[1])]
    /\ UNCHANGED <<now, round, committees, certs, proposed, workers, sent, pending,
                   storedTx, pool, headers, tick, sig, prop, resp>>

\* A variant of fetch_is_complete under which the loop over the callbacks
\* never ends (C18 depends on the loops of lines 730 and 765 ending).
fetch_is_complete_never(waiting) == FALSE

\* Lines 730-736 and 765-771: the loop over the callbacks ends with success
\* when none is outstanding.
fetch_is_complete(waiting) == waiting = {}

\* Lines 730-736: every transmission callback has been answered.
IngAwaitTransmissions(t) ==
    /\ ing[t].pc = "await_tx"
    /\ fetch_is_complete(ing[t].waiting)
    /\ ing' = [ing EXCEPT ![t].pc = "fetch_certs"]
    /\ UNCHANGED <<now, round, committees, certs, proposed, workers, sent, pending,
                   storedTx, pool, headers, tick, sig, prop, resp>>

\* Lines 496-498 with 744-762: request the missing previous certificates.
IngFetchCertificates(t) ==
    /\ ing[t].pc = "fetch_certs"
    /\ LET missing == IF fetches_previous(ing[t].certificate[1])
                      THEN missing_certificates(ing[t].certificate[1].header)
                      ELSE {}
       IN  /\ pending' = pending \cup {<<id, ing[t].peer, round>> : id \in missing}
           /\ sent' = sent \cup {[type |-> "CertificateRequest", to |-> ing[t].peer,
                                  certificate_id |-> id] : id \in missing}
           /\ ing' = [ing EXCEPT ![t].pc = IF missing = {} THEN "store" ELSE "await_certs",
                                 ![t].waiting = missing]
    /\ UNCHANGED <<now, round, committees, certs, proposed, workers,
                   storedTx, pool, headers, tick, sig, prop, resp>>

\* Lines 765-771: every certificate callback has been answered.
IngAwaitCertificates(t) ==
    /\ ing[t].pc = "await_certs"
    /\ fetch_is_complete(ing[t].waiting)
    /\ ing' = [ing EXCEPT ![t].pc = "store"]
    /\ UNCHANGED <<now, round, committees, certs, proposed, workers, sent, pending,
                   storedTx, pool, headers, tick, sig, prop, resp>>

\* Lines 501-505: store the certificate unless Storage has it.
IngStore(t) ==
    /\ ing[t].pc = "store"
    /\ IF contains_certificate(certificate_id(ing[t].certificate[1]))
       THEN /\ ing' = [ing EXCEPT ![t] = IngIdle]
            /\ UNCHANGED certs
       ELSE /\ certs' = certs \cup {ing[t].certificate[1]}
            /\ ing' = [ing EXCEPT ![t].pc = "while"]
    /\ UNCHANGED <<now, round, committees, proposed, workers, sent, pending,
                   storedTx, pool, headers, tick, sig, prop, resp>>

\* Line 509: the loop test reads the committee round.
IngWhile(t) ==
    /\ ing[t].pc = "while"
    /\ ~CommitteeWriteHeld
    /\ ing' = IF round < ing[t].certificate[1].header.round
              THEN [ing EXCEPT ![t].pc = "advance"]
              ELSE [ing EXCEPT ![t] = IngIdle]
    /\ UNCHANGED <<now, round, committees, certs, proposed, workers, sent, pending,
                   storedTx, pool, headers, tick, sig, prop, resp>>

\* Line 510 and lines 791-797.
IngAdvance(t) ==
    /\ ing[t].pc = "advance"
    /\ UpdateAcquire
    /\ ing' = [ing EXCEPT ![t].pc = "upd_slot"]
    /\ UNCHANGED <<now, certs, proposed, workers, sent, pending,
                   storedTx, pool, headers, tick, sig, prop, resp>>

\* Line 799.
IngUpdateSlot(t) ==
    /\ ing[t].pc = "upd_slot"
    /\ UpdateClearSlot
    /\ ing' = [ing EXCEPT ![t].pc = "upd_ret"]
    /\ UNCHANGED <<now, round, committees, certs, workers, sent, pending,
                   storedTx, pool, headers, tick, sig, prop, resp>>

\* Lines 801-803: release the committee, return to the loop test.
IngUpdateReturn(t) ==
    /\ ing[t].pc = "upd_ret"
    /\ ing' = [ing EXCEPT ![t].pc = "while"]
    /\ UNCHANGED <<now, round, committees, certs, proposed, workers, sent, pending,
                   storedTx, pool, headers, tick, sig, prop, resp>>

\* A variant of response_is_solicited that accepts a response for a pending
\* id from any peer (C13 depends on the test of the peer at line 543).
response_is_solicited_any_peer(peer_ip, id) == pending_contains(id)

(* ------------------- the CertificateResponse handler ------------------ *)
\* Line 543: the peer was asked for this certificate.
response_is_solicited(peer_ip, id) == peer_ip \in pending_get(id)

\* Pending::remove: drop the id's entries (its callbacks are answered).
pending_remove(id) == {e \in pending : e[1] # id}

\* The handler before its first response.
RespIdle == [peer |-> "", id |-> <<>>, log |-> ""]

\* A variant of ingestion_awaited under which the handler awaits the
\* ingestion it starts (C25 depends on the spawn of line 550).
ingestion_awaited_inline(t) == {t}

\* Lines 549-554: the handle returned by tokio::spawn is dropped, the handler
\* awaits none of the ingestions it starts and returns at line 555.
ingestion_awaited(t) == {}

\* The running ingestions whose return the response handler awaits before it
\* takes the next message (lines 620-621).
RespAwaited == UNION {ingestion_awaited(t) : t \in {u \in Spawned : ing[u].pc # "idle"}}

\* The peers that send CertificateResponses.
ResponsePeers == Peers \cap Members

\* Lines 538-556: a solicited response leaves Pending and is ingested by a
\* spawned task; the callbacks of the tasks waiting for the id are answered.
\* An unsolicited response is dropped.
ResponseReceive ==
    /\ RespAwaited = {}
    /\ \E p \in ResponsePeers, c \in pool :
          LET id == certificate_id(c)
          IN  IF response_is_solicited(p, id)
              THEN \E t \in Spawned :
                      /\ ing[t].pc = "idle"
                      /\ t = CHOOSE u \in Spawned : ing[u].pc = "idle"
                      /\ pending' = pending_remove(id)
                      /\ ing' = [u \in IngTasks |->
                                  IF u = t
                                  THEN [IngIdle EXCEPT !.pc = "start", !.peer = p,
                                                       !.certificate = <<c>>]
                                  ELSE [ing[u] EXCEPT
                                          !.waiting = IF ing[u].pc = "await_certs"
                                                      THEN @ \ {id} ELSE @]]
                      /\ prop' = [prop EXCEPT !.waiting = @ \ {id}]
                      /\ resp' = [peer |-> p, id |-> <<id>>, log |-> "ingest"]
              ELSE /\ resp' = [peer |-> p, id |-> <<id>>, log |-> "unsolicited"]
                   /\ UNCHANGED <<pending, ing, prop>>
    /\ UNCHANGED <<now, round, committees, certs, proposed, workers, sent,
                   storedTx, pool, headers, tick, sig>>

(* ----------------------- the BatchPropose handler --------------------- *)
PropIdle(log) == [pc |-> "recv", peer |-> "", header |-> <<>>, waiting |-> {}, log |-> log]

\* The headers peers propose.
HeaderA == peer_header("v1", 1, {})
HeaderB == [peer_header("v1", 1, {}) EXCEPT !.timestamp = 1]
HeaderX == peer_header(Outsider, 1, {})
HeaderC == peer_header("v2", 2, {certificate_id(CertA)})

\* Headers of round 2: on top of a quorum of round-1 certificates, and on top
\* of certificates one of which is of round 2.
HeaderQ ==
    peer_header("v2", 2, {certificate_id(CertA), certificate_id(CertB), certificate_id(CertD)})
HeaderW ==
    peer_header("v3", 2, {certificate_id(CertA), certificate_id(CertB), certificate_id(CertC)})

\* Lines 267-276: the header is not signed, whatever the later checks say.
propose_early_exit(header) ==
    IF contains_batch(batch_id(header)) THEN "already processed"
    ELSE IF round + max_gc_rounds <= header.round THEN "too far in the future"
    ELSE ""

\* Line 279: the committee is behind the header's round.
propose_is_behind(header) == round < header.round

\* A variant of propose_rejection without the membership test of lines
\* 290-300 (C10 depends on it).
propose_rejection_no_member(header) ==
    IF round > header.round + 1 THEN "no longer signing"
    ELSE IF header.timestamp > now + MAX_TIMESTAMP_DELTA_IN_SECS THEN "timestamp"
    ELSE ""

\* Lines 285-305: the round window, the author and the timestamp.
propose_rejection(header) ==
    IF round > header.round + 1 THEN "no longer signing"
    ELSE IF ~is_committee_member(header.author) THEN "not a member"
    ELSE IF header.timestamp > now + MAX_TIMESTAMP_DELTA_IN_SECS THEN "timestamp"
    ELSE ""

\* A variant of previous_rejection without the quorum test of lines 339-345
\* (C20 depends on it).
previous_rejection_no_quorum(header) ==
    LET previous_round == saturating_sub(header.round, 1)
        previous == {c \in certs : certificate_id(c) \in header.prev}
    IN  IF \E id \in header.prev : ~contains_certificate(id) THEN "missing previous"
        ELSE IF \E c \in previous : c.header.round # previous_round THEN "wrong round"
        ELSE IF ~has_committee_for_round(previous_round) THEN "missing committee"
        ELSE ""

\* Lines 325-345: the previous certificates are stored, are of the previous
\* round and their authors reach the quorum of the previous committee.
previous_rejection(header) ==
    LET previous_round == saturating_sub(header.round, 1)
        previous == {c \in certs : certificate_id(c) \in header.prev}
    IN  IF \E id \in header.prev : ~contains_certificate(id) THEN "missing previous"
        ELSE IF \E c \in previous : c.header.round # previous_round THEN "wrong round"
        ELSE IF ~has_committee_for_round(previous_round) THEN "missing committee"
        ELSE IF ~is_quorum_threshold_reached({c.header.author : c \in previous})
             THEN "no quorum"
             ELSE ""

\* Lines 350-357: sign (batch_id, now) and send the signature to the peer.
batch_signature(peer_ip, header) ==
    [type |-> "BatchSignature", to |-> peer_ip, batch_id |-> batch_id(header),
     signature |-> [signer |-> Self, bid |-> batch_id(header), stamp |-> now]]

\* fetch_missing_certificates lines 744-762, called by the propose handler.
PropRequest(missing, after) ==
    /\ pending' = pending \cup {<<id, prop.peer, round>> : id \in missing}
    /\ sent' = sent \cup {[type |-> "CertificateRequest", to |-> prop.peer,
                           certificate_id |-> id] : id \in missing}
    /\ prop' = [prop EXCEPT !.pc = after, !.waiting = missing]

\* Lines 254-282: take the next BatchPropose; the early exits; the first fetch.
PropReceive ==
    /\ prop.pc = "recv"
    /\ ~CommitteeWriteHeld
    /\ \E p \in CertificatePeers, h \in headers :
          IF propose_early_exit(h) # ""
          THEN /\ prop' = PropIdle(propose_early_exit(h))
               /\ UNCHANGED <<pending, sent>>
          ELSE LET missing == IF propose_is_behind(h) THEN missing_certificates(h) ELSE {}
               IN  /\ pending' = pending \cup {<<id, p, round>> : id \in missing}
                   /\ sent' = sent \cup {[type |-> "CertificateRequest", to |-> p,
                                          certificate_id |-> id] : id \in missing}
                   /\ prop' = [pc |-> IF missing = {} THEN "window" ELSE "await",
                               peer |-> p, header |-> <<h>>, waiting |-> missing,
                               log |-> ""]
    /\ UNCHANGED <<now, round, committees, certs, proposed, workers, storedTx, pool,
                   headers, tick, sig, ing, resp>>

\* Lines 765-771 (called from line 281): the callbacks have been answered.
PropAwait ==
    /\ prop.pc = "await"
    /\ fetch_is_complete(prop.waiting)
    /\ prop' = [prop EXCEPT !.pc = "window"]
    /\ UNCHANGED <<now, round, committees, certs, proposed, workers, sent, storedTx,
                   pool, headers, pending, tick, sig, ing, resp>>

\* Lines 285-319: the window, author and timestamp checks; for a round above
\* 1 the fetch of the missing transmissions and previous certificates.
PropWindow ==
    /\ prop.pc = "window"
    /\ ~CommitteeWriteHeld
    /\ LET h == prop.header[1]
       IN  IF propose_rejection(h) # ""
           THEN /\ prop' = PropIdle(propose_rejection(h))
                /\ UNCHANGED <<pending, sent>>
           ELSE IF saturating_sub(h.round, 1) > 0
           THEN PropRequest(missing_certificates(h),
                            IF missing_certificates(h) = {} THEN "verify" ELSE "await2")
           ELSE /\ sent' = sent \cup {batch_signature(prop.peer, h)}
                /\ prop' = PropIdle("signed")
                /\ UNCHANGED pending
    /\ UNCHANGED <<now, round, committees, certs, proposed, workers, storedTx, pool,
                   headers, tick, sig, ing, resp>>

\* Lines 765-771 (called from line 319): the callbacks have been answered.
PropAwait2 ==
    /\ prop.pc = "await2"
    /\ fetch_is_complete(prop.waiting)
    /\ prop' = [prop EXCEPT !.pc = "verify"]
    /\ UNCHANGED <<now, round, committees, certs, proposed, workers, sent, storedTx,
                   pool, headers, pending, tick, sig, ing, resp>>

\* Lines 321-358: check the previous certificates, then sign.
PropVerify ==
    /\ prop.pc = "verify"
    /\ LET h == prop.header[1]
       IN  IF previous_rejection(h) # ""
           THEN /\ prop' = PropIdle(previous_rejection(h))
                /\ UNCHANGED sent
           ELSE /\ sent' = sent \cup {batch_signature(prop.peer, h)}
                /\ prop' = PropIdle("signed")
    /\ UNCHANGED <<now, round, committees, certs, proposed, workers, storedTx, pool,
                   headers, pending, tick, sig, ing, resp>>

(* ------------------------- workers and peers -------------------------- *)
\* Worker::process_transmission_id with its callback (line 720): the worker
\* obtains the transmission from the peer, stores it and answers the callback.
WorkerFetch(t) ==
    /\ ing[t].pc = "await_tx"
    /\ \E id \in ing[t].waiting :
          /\ storedTx' = storedTx \cup {id}
          /\ ing' = [ing EXCEPT ![t].waiting = @ \ {id}]
    /\ UNCHANGED <<now, round, committees, certs, proposed, workers, sent, pending,
                   pool, headers, tick, sig, prop, resp>>

\* A task is waiting for callbacks registered for requests to peer_ip.
awaits_peer(task, peer_ip) ==
    /\ task.pc \in {"await_tx", "await_certs", "await", "await2"}
    /\ task.peer = peer_ip
    /\ task.waiting # {}

\* The asked peer disconnects: the callbacks of the requests to it are closed,
\* the waiting fetch returns the error (lines 731-733, 766-768) and the
\* handler logs it and takes its next message.
Disconnect ==
    /\ \E p \in CertificatePeers :
          /\ awaits_peer(prop, p) \/ \E t \in IngTasks : awaits_peer(ing[t], p)
          /\ ing' = [t \in IngTasks |->
                       IF awaits_peer(ing[t], p) THEN IngIdle ELSE ing[t]]
          /\ prop' = IF awaits_peer(prop, p) THEN PropIdle("fetch error") ELSE prop
    /\ UNCHANGED <<now, round, committees, certs, proposed, workers, sent, pending,
                   storedTx, pool, headers, tick, sig, resp>>

(* --------------------------- specification ---------------------------- *)
Init ==
    /\ now = 0
    /\ round = 1
    /\ committees = {1}
    /\ certs = {}
    /\ proposed = <<>>
    /\ workers = [w \in 0..(MAX_WORKERS - 1) |-> <<[id |-> "t1", data |-> "a"]>>]
    /\ sent = {}
    /\ storedTx = {}
    /\ pool = {CertA, CertX}
    /\ pending = {}
    /\ tick = TickIdle
    /\ sig = SigIdle("")
    /\ ing = [t \in TaskIds |-> IngIdle]
    /\ prop = PropIdle("")
    /\ resp = RespIdle
    /\ headers = {}

Proposer ==
    \/ TickCheckExpiration
    \/ TickClearExpired
    \/ ProposeCheckSlot
    \/ ProposeReadRound
    \/ ProposeBuild
    \/ ProposeStore

SignatureHandler ==
    \/ SigReceive
    \/ SigCheck
    \/ SigValidate
    \/ SigCheckExpiration
    \/ SigClearExpired
    \/ SigInsert
    \/ SigReadSlot
    \/ SigQuorum
    \/ SigTake
    \/ SigCertify
    \/ SigAdvance
    \/ SigUpdateSlot
    \/ SigUpdateReturn

Ingestion(t) ==
    \/ IngFetchCertificates(t)
    \/ IngStore(t)
    \/ IngWhile(t)
    \/ IngAdvance(t)
    \/ IngUpdateSlot(t)
    \/ IngUpdateReturn(t)

Next ==
    \/ AdvanceClock
    \/ Proposer
    \/ SignatureHandler
    \/ CertifiedReceive
    \/ Ingestion(0)

Spec == Init /\ [][Next]_vars

(* The BatchPropose handler with certificate ingestion and backfill. *)
InitPropose ==
    /\ now = 0
    /\ round = 1
    /\ committees = {1}
    /\ certs = {}
    /\ proposed = <<>>
    /\ workers = [w \in 0..(MAX_WORKERS - 1) |-> <<>>]
    /\ sent = {}
    /\ storedTx = {}
    /\ pool = {CertA, CertX}
    /\ headers = {HeaderA, HeaderB, HeaderX, HeaderC}
    /\ pending = {}
    /\ tick = TickIdle
    /\ sig = SigIdle("")
    /\ ing = [t \in TaskIds |-> IngIdle]
    /\ prop = PropIdle("")
    /\ resp = RespIdle

ProposeHandler ==
    \/ PropReceive
    \/ PropAwait
    \/ PropWindow
    \/ PropAwait2
    \/ PropVerify

NextPropose ==
    \/ AdvanceClock
    \/ ProposeHandler
    \/ CertifiedReceive
    \/ ResponseReceive
    \/ \E t \in Spawned : IngStart(t)
    \/ \E t \in IngTasks : IngAwaitCertificates(t)
    \/ \E t \in IngTasks : Ingestion(t)

SpecPropose == InitPropose /\ [][NextPropose]_vars

(* Certificate ingestion with the backfill of transmissions and previous
   certificates: the peer answers, stays silent or disconnects. *)
InitFetch ==
    /\ now = 0
    /\ round = 1
    /\ committees = {1}
    /\ certs = {}
    /\ proposed = <<>>
    /\ workers = [w \in 0..(MAX_WORKERS - 1) |-> <<>>]
    /\ sent = {}
    /\ storedTx = {"t1"}
    /\ pool = {CertA, CertZ, CertT, CertF}
    /\ headers = {}
    /\ pending = {}
    /\ tick = TickIdle
    /\ sig = SigIdle("")
    /\ ing = [t \in TaskIds |-> IngIdle]
    /\ prop = PropIdle("")
    /\ resp = RespIdle

\* The steps of the ingestion tasks.
IngestionTasks ==
    \/ \E t \in Spawned : IngStart(t)
    \/ \E t \in IngTasks : IngAwaitTransmissions(t)
    \/ \E t \in IngTasks : IngAwaitCertificates(t)
    \/ \E t \in IngTasks : Ingestion(t)

\* What the asked peer and the workers do for an outstanding request.
Served ==
    \/ ResponseReceive /\ pending' # pending
    \/ Disconnect
    \/ \E t \in IngTasks : WorkerFetch(t)

NextFetch ==
    \/ CertifiedReceive
    \/ ResponseReceive
    \/ Disconnect
    \/ \E t \in IngTasks : WorkerFetch(t)
    \/ IngestionTasks

SpecFetch == InitFetch /\ [][NextFetch]_vars

(* Ingestion and backfill under the scheduler, with a peer that answers each
   request or disconnects and workers that complete each fetch. *)
InitFetchLive ==
    /\ now = 0
    /\ round = 1
    /\ committees = {1}
    /\ certs = {}
    /\ proposed = <<>>
    /\ workers = [w \in 0..(MAX_WORKERS - 1) |-> <<>>]
    /\ sent = {}
    /\ storedTx = {"t1"}
    /\ pool = {CertA, CertX, CertT}
    /\ headers = {}
    /\ pending = {}
    /\ tick = TickIdle
    /\ sig = SigIdle("")
    /\ ing = [t \in TaskIds |-> IngIdle]
    /\ prop = PropIdle("")
    /\ resp = RespIdle

SpecFetchLive ==
    /\ InitFetchLive
    /\ [][NextFetch]_vars
    /\ WF_vars(IngestionTasks)
    /\ WF_vars(Served)

(* Recursive backfill: a certificate of round 3 whose previous certificate
   of round 2 and its previous certificate of round 1 are both missing, with
   two tasks for the response handler to spawn. *)
InitDeep ==
    /\ now = 0
    /\ round = 1
    /\ committees = {1}
    /\ certs = {}
    /\ proposed = <<>>
    /\ workers = [w \in 0..(MAX_WORKERS - 1) |-> <<>>]
    /\ sent = {}
    /\ storedTx = {}
    /\ pool = {CertA, CertX, CertG}
    /\ headers = {}
    /\ pending = {}
    /\ tick = TickIdle
    /\ sig = SigIdle("")
    /\ ing = [t \in 0..DeepSpawned |-> IngIdle]
    /\ prop = PropIdle("")
    /\ resp = RespIdle

NextDeep ==
    \/ CertifiedReceive
    \/ ResponseReceive
    \/ \E t \in Spawned : IngStart(t)
    \/ \E t \in IngTasks : IngAwaitCertificates(t)
    \/ \E t \in IngTasks : Ingestion(t)

SpecDeep == InitDeep /\ [][NextDeep]_vars

(* The signature handler on one batch that does not expire: the batch is
   proposed at time 1 or later and the clock stops at MaxNow, and no
   certificate is ingested. *)
InitSign ==
    /\ now = 1
    /\ round = 1
    /\ committees = {1}
    /\ certs = {}
    /\ proposed = <<>>
    /\ workers = [w \in 0..(MAX_WORKERS - 1) |-> <<[id |-> "t1", data |-> "a"]>>]
    /\ sent = {}
    /\ storedTx = {}
    /\ pool = {}
    /\ headers = {}
    /\ pending = {}
    /\ tick = TickIdle
    /\ sig = SigIdle("")
    /\ ing = [t \in TaskIds |-> IngIdle]
    /\ prop = PropIdle("")
    /\ resp = RespIdle

NextSign ==
    \/ AdvanceClock
    \/ TickCheckExpiration
    \/ ProposeCheckSlot
    \/ ProposeReadRound
    \/ ProposeBuild
    \/ ProposeStore
    \/ SigReceive
    \/ SigCheck
    \/ SigValidate
    \/ SigCheckExpiration
    \/ SigInsert
    \/ SigReadSlot
    \/ SigQuorum
    \/ SigTake
    \/ SigCertify
    \/ SigAdvance
    \/ SigUpdateSlot
    \/ SigUpdateReturn

SpecSign == InitSign /\ [][NextSign]_vars

(* The BatchPropose handler for headers of round 2.  The certificates of
   round 1 from three authors have been ingested, which leaves the committee
   at round 1 (line 509); a certificate of round 2 is still to come. *)
InitWindow ==
    /\ now = 0
    /\ round = 1
    /\ committees = {1}
    /\ certs = {CertA, CertB, CertD}
    /\ proposed = <<>>
    /\ workers = [w \in 0..(MAX_WORKERS - 1) |-> <<>>]
    /\ sent = {}
    /\ storedTx = {}
    /\ pool = {CertC}
    /\ headers = {HeaderQ, HeaderC, HeaderW}
    /\ pending = {}
    /\ tick = TickIdle
    /\ sig = SigIdle("")
    /\ ing = [t \in TaskIds |-> IngIdle]
    /\ prop = PropIdle("")
    /\ resp = RespIdle

NextWindow ==
    \/ ProposeHandler
    \/ CertifiedReceive
    \/ ResponseReceive
    \/ Disconnect
    \/ \E t \in Spawned : IngStart(t)
    \/ \E t \in IngTasks : Ingestion(t)

SpecWindow == InitWindow /\ [][NextWindow]_vars

(* The proposal tick at round 2.  The round-1 certificates of two authors
   have been ingested; a third one and a certificate of round 2 are still
   to come. *)
InitReady ==
    /\ now = 0
    /\ round = 1
    /\ committees = {1}
    /\ certs = {CertA, CertB}
    /\ proposed = <<>>
    /\ workers = [w \in 0..(MAX_WORKERS - 1) |-> <<[id |-> "t1", data |-> "a"]>>]
    /\ sent = {}
    /\ storedTx = {}
    /\ pool = {CertD, CertC}
    /\ headers = {}
    /\ pending = {}
    /\ tick = TickIdle
    /\ sig = SigIdle("")
    /\ ing = [t \in TaskIds |-> IngIdle]
    /\ prop = PropIdle("")
    /\ resp = RespIdle

NextReady ==
    \/ AdvanceClock
    \/ Proposer
    \/ CertifiedReceive
    \/ Ingestion(0)

SpecReady == InitReady /\ [][NextReady]_vars

(* The drain of the workers by the proposal tick, for every content of the
   worker queues.  A worker's drain returns a map, so a queue holds each
   TransmissionId once. *)
TransmissionEntries == {[id |-> i, data |-> d] : i \in {"t1", "t2"}, d \in {"a", "b"}}

RECURSIVE QueuesUpTo(_)
QueuesUpTo(n) ==
    IF n = 0 THEN {<<>>}
    ELSE LET shorter == QueuesUpTo(n - 1)
         IN  shorter \cup {Append(q, e) : q \in shorter, e \in TransmissionEntries}

WorkerQueues ==
    {q \in QueuesUpTo(MaxQueue) :
        \A i, j \in 1..Len(q) : q[i].id = q[j].id => i = j}

InitDrain ==
    /\ now = 0
    /\ round = 1
    /\ committees = {1}
    /\ certs = {}
    /\ proposed = <<>>
    /\ workers \in [0..(DrainWorkers - 1) -> WorkerQueues]
    /\ sent = {}
    /\ storedTx = {}
    /\ pool = {}
    /\ headers = {}
    /\ pending = {}
    /\ tick = TickIdle
    /\ sig = SigIdle("")
    /\ ing = [t \in TaskIds |-> IngIdle]
    /\ prop = PropIdle("")
    /\ resp = RespIdle

NextDrain ==
    \/ AdvanceClock
    \/ Proposer

SpecDrain == InitDrain /\ [][NextDrain]_vars

(* ------------------------------- claims ------------------------------- *)
\* The certificates this validator has certified and broadcast.
OwnCertificates == {e.certificate : e \in {x \in sent : x.type = "BatchCertified"}}

\* The signers of a certificate together with its author.
CertificateSigners(c) == {to_address(s) : s \in c.signatures} \cup {c.header.author}

\* C1 (quorum before certify): every certificate the signature handler has
\* stored and broadcast carries signatures whose addresses, together with the
\* author, reach the quorum threshold of the committee.
C1_QuorumBeforeCertify ==
    \A c \in OwnCertificates : is_quorum_threshold_reached(CertificateSigners(c))

\* A task takes the committee write guard in update_committee_to_next_round.
UpdateCalled ==
    \/ sig.pc = "advance" /\ sig'.pc = "upd_slot"
    \/ \E t \in IngTasks : ing[t].pc = "advance" /\ ing'[t].pc = "upd_slot"

\* A task returns from update_committee_to_next_round.
UpdateReturned ==
    \/ sig.pc = "upd_ret" /\ sig'.pc # "upd_ret"
    \/ \E t \in IngTasks : ing[t].pc = "upd_ret" /\ ing'[t].pc # "upd_ret"

\* C2 (round monotonicity): committee.round never decreases and changes only
\* in update_committee_to_next_round; each call raises it by exactly one and
\* stores the committee of the new round; the slot is empty when the call
\* returns.
C2_RoundMonotonicity ==
    [][/\ round' >= round
       /\ round' # round => UpdateCalled
       /\ UpdateCalled => round' = round + 1 /\ round' \in committees'
       /\ UpdateReturned => proposed' = <<>>]_vars

\* C3 (no batch for a past round): whenever the committee can be read, a
\* populated slot holds a batch of the committee's round.
C3_SlotRoundIsCurrent ==
    (~CommitteeWriteHeld /\ proposed # <<>>) => proposed[1].batch.round = round

\* A batch enters the slot (an empty slot is filled or a batch is replaced).
NewBatchInSlot ==
    /\ proposed' # <<>>
    /\ proposed = <<>> \/ proposed'[1].batch # proposed[1].batch

\* A BatchPropose is handed to the gateway.
NewProposeBroadcast == \E e \in sent' \ sent : e.type = "BatchPropose"

\* C4 (no double proposal): the slot holds at most one batch; the workers are
\* drained, a BatchPropose is broadcast and a batch is written to the slot
\* only while the slot is empty.
C4_NoDoubleProposal ==
    /\ [](Len(proposed) <= 1)
    /\ [][(NewBatchInSlot \/ NewProposeBroadcast \/ workers' # workers)
            => proposed = <<>>]_vars

\* C4 witness: the proposer reaches propose_batch while the slot is populated.
C4_Witness == proposed # <<>> /\ tick.pc = "propose"

\* The BatchSignature events sent to peers.
SentSignatures == {e \in sent : e.type = "BatchSignature"}

\* C5 (one signature per round and author): the BatchSignatures sent for one
\* (round, author) are all for the same batch id.
C5_OneSignaturePerRoundAuthor ==
    \A e1, e2 \in SentSignatures :
        (e1.batch_id[1] = e2.batch_id[1] /\ e1.batch_id[2] = e2.batch_id[2])
            => e1.batch_id = e2.batch_id

\* C6 (ingestion validates): a certificate stored by ingestion has a
\* committee member as author, previous certificates that are all stored at
\* round - 1, and (above round 1) their authors reach the quorum threshold.
C6_IngestionValidates ==
    \A c \in certs \cap pool :
        LET previous == {d \in certs : certificate_id(d) \in c.header.prev}
        IN  /\ is_committee_member(c.header.author)
            /\ \A id \in c.header.prev : contains_certificate(id)
            /\ \A d \in previous : d.header.round = c.header.round - 1
            /\ c.header.round > 1 =>
                  is_quorum_threshold_reached({d.header.author : d \in previous})

\* C7 (atomic take): the take of line 432 finds the batch and the signatures
\* the quorum test succeeded on; it never finds the slot empty.
C7_AtomicTake ==
    /\ sig.pc # "panicked"
    /\ sig.pc = "certify" => sig.taken = sig.tested

\* The batch id of the batch in the slot, as a sequence of length 0 or 1.
SlotBatchId ==
    IF proposed = <<>> THEN <<>> ELSE <<batch_id(to_header(proposed[1].batch))>>

\* C9 (late signature is dropped): a BatchSignature whose batch id is not that
\* of the batch in the slot (the slot empty included) ends the handling of the
\* event and changes neither the slot, the committee, the storage, the
\* pending requests, the workers nor what was sent.
C9_LateSignatureNoChange ==
    [][/\ (sig.pc = "recv" /\ sig' # sig)
            => UNCHANGED <<round, committees, certs, storedTx, proposed,
                           pending, workers, sent>>
       /\ (sig.pc = "check" /\ sig' # sig /\ sig.bid # SlotBatchId)
            => /\ sig'.pc = "recv"
               /\ UNCHANGED <<round, committees, certs, storedTx, proposed,
                              pending, workers, sent>>]_vars

\* C9 witness: a signature for a batch that was certified before was dropped.
C9_Witness == sig.pc = "recv" /\ sig.log = "already certified"

\* C10 (non-member proposal): no BatchSignature is sent for a header whose
\* author is not a committee member, the rejection sends nothing and leaves
\* the handler at its receive loop.
C10_NonMemberRejected ==
    /\ [](\A e \in SentSignatures : is_committee_member(e.batch_id[1]))
    /\ [][(prop.pc = "window" /\ prop' # prop
            /\ prop.header[1].author \notin Members)
          => prop'.pc = "recv" /\ sent' = sent]_vars

\* C10 witness: a header of a non-member was rejected.
C10_Witness == prop.pc = "recv" /\ prop.log = "not a member"

(* The handlers under the scheduler: a task that can take its next step
   eventually takes it, and peers keep sending signatures.  The clock and the
   arrival of certificates are not forced. *)
SpecLive ==
    /\ Init
    /\ [][Next]_vars
    /\ WF_vars(Proposer)
    /\ WF_vars(SignatureHandler)
    /\ WF_vars(Ingestion(0))

\* The batches this validator can propose for round 1.
HappyBatches ==
    {[author |-> Self, round |-> 1, timestamp |-> ts, transmissions |-> tx,
      previous |-> {}] : ts \in 0..MaxNow, tx \in {<<>>, <<[id |-> "t1", data |-> "a"]>>}}

\* The slot holds b, unexpired, with valid signatures for b that reach the
\* quorum together with the author.
HappyQuorum(b) ==
    /\ proposed # <<>>
    /\ proposed[1].batch = b
    /\ ~is_expired(proposed)
    /\ LET valid == {s \in proposed[1].signatures :
                        verify(s, s.signer, batch_id(to_header(b)), s.stamp)}
       IN  is_quorum_threshold_reached({to_address(s) : s \in valid} \cup {b.author})

\* A certificate for b is stored and was broadcast.
Certified(b) ==
    \E c \in certs \cap OwnCertificates : c.header = to_header(b)

\* The outcome of the happy path for b.
HappyDone(b) ==
    Certified(b) /\ round = b.round + 1 /\ proposed = <<>>

\* C8 (happy-propose liveness): once the slot holds B with a quorum of valid
\* signatures delivered before B expires, eventually a certificate for B is
\* stored and broadcast, the round is B's round plus one and the slot is empty.
C8_HappyProposeLiveness ==
    \A b \in HappyBatches : HappyQuorum(b) ~> HappyDone(b)

\* The certificates stored by ingestion whose previous certificates are
\* fetched (line 496).
BackfilledCertificates == {c \in certs \cap pool : fetches_previous(c)}

\* C11 (backfill fills a gap): a certificate of a round above gc_round + 1 is
\* stored by ingestion only after every previous certificate of its header
\* is stored.
C11_GapFilledBeforeInsert ==
    \A c \in BackfilledCertificates :
        \A id \in c.header.prev : contains_certificate(id)

\* The slot holds a batch older than MAX_EXPIRATION_TIME_IN_SECS.
ExpiredInSlot ==
    /\ proposed # <<>>
    /\ now - proposed[1].batch.timestamp > MAX_EXPIRATION_TIME_IN_SECS

\* The proposal tick fires again and again.
TicksKeepFiring == []<>(tick.pc = "sleep") /\ []<>(tick.pc = "propose")

\* C12 (expiration clears the slot): a tick that finds an expired batch in the
\* slot goes on to clear it and its clearing step leaves the slot empty; a
\* tick that passes the ready test broadcasts a batch stamped with the current
\* time and puts it into the slot; and while ticks keep firing an expired
\* batch does not stay in the slot forever.
C12_ExpirationClearsSlot ==
    /\ [][(tick.pc = "sleep" /\ tick'.pc # "sleep" /\ ExpiredInSlot)
             => tick'.pc = "expire"]_vars
    /\ [][(tick.pc = "expire" /\ tick'.pc # "expire") => proposed' = <<>>]_vars
    /\ [][(tick.pc = "ready" /\ tick'.pc = "store")
             => /\ tick'.batch[1].timestamp = now
                /\ [type |-> "BatchPropose", to |-> "all",
                    header |-> to_header(tick'.batch[1])] \in sent']_vars
    /\ [][(tick.pc = "store" /\ tick'.pc # "store")
             => proposed' = <<[batch |-> tick.batch[1], signatures |-> {}]>>]_vars
    /\ (TicksKeepFiring => (ExpiredInSlot ~> ~ExpiredInSlot))

\* The tick has cleared an expired batch that got no signature: no other task
\* has acted.
C12_Witness ==
    /\ tick.pc = "propose"
    /\ proposed = <<>>
    /\ sig = SigIdle("")
    /\ certs = {}
    /\ \A t \in IngTasks : ing[t] = IngIdle
    /\ \E m \in sent :
          /\ m.type = "BatchPropose"
          /\ now - m.header.timestamp > MAX_EXPIRATION_TIME_IN_SECS

\* Pending holds the id for this peer.
PendingFor(id, peer_ip) == \E e \in pending : e[1] = id /\ e[2] = peer_ip

\* C13 (unsolicited response dropped): the handling of a CertificateResponse
\* from peer P for an id that Pending does not hold for P changes neither
\* Storage nor Pending nor the round nor any ingestion task, and a spawned
\* ingestion task starts only for a certificate whose id Pending held for
\* the sending peer.
C13_UnsolicitedDropped ==
    /\ [][(resp' # resp /\ ~PendingFor(resp'.id[1], resp'.peer))
             => UNCHANGED <<certs, storedTx, committees, pending, round, ing>>]_vars
    /\ [][\A t \in Spawned :
             (ing[t].pc = "idle" /\ ing'[t].pc = "start")
                => PendingFor(certificate_id(ing'[t].certificate[1]), ing'[t].peer)]_vars

\* A response was dropped whose id is pending for another peer only.
C13_Witness ==
    /\ resp.log = "unsolicited"
    /\ pending_contains(resp.id[1])
    /\ ~PendingFor(resp.id[1], resp.peer)

\* The ingestion task t enters fetch_missing_transmissions (line 494) with
\* the certificate it holds after the step.
EntersTransmissionFetch(t) ==
    /\ ing[t].pc \in {"idle", "start"}
    /\ ing'[t].pc \notin {"idle", "start"}

\* The ingestion task t runs fetch_missing_certificates (line 498).
RunsCertificateFetch(t) ==
    /\ ing[t].pc = "fetch_certs"
    /\ ing'[t].pc # "fetch_certs"
    /\ fetches_previous(ing[t].certificate[1])

\* C14 (backfill idempotence): fetch_missing_transmissions with a header
\* whose transmission ids are all stored, and fetch_missing_certificates with
\* a header whose previous certificate ids are all stored, return at once
\* without a waiter, send nothing and leave Pending and Storage unchanged.
C14_BackfillIdempotence ==
    /\ [][\A t \in IngTasks :
             (/\ EntersTransmissionFetch(t)
              /\ ing'[t].certificate[1].header.tids \subseteq storedTx)
                => /\ ing'[t].pc = "fetch_certs"
                   /\ ing'[t].waiting = {}
                   /\ UNCHANGED <<sent, pending, certs, storedTx>>]_vars
    /\ [][\A t \in IngTasks :
             (/\ RunsCertificateFetch(t)
              /\ \A id \in ing[t].certificate[1].header.prev : contains_certificate(id))
                => /\ ing'[t].pc = "store"
                   /\ ing'[t].waiting = {}
                   /\ UNCHANGED <<sent, pending, certs, storedTx>>]_vars

\* Both fetches have returned for CertZ, whose transmission and previous
\* certificates are stored, without any request ever sent.
C14_Witness ==
    /\ ing[0].pc = "store"
    /\ ing[0].certificate = <<CertZ>>
    /\ CertZ.header.tids \subseteq storedTx
    /\ {CertA, CertF} \subseteq certs
    /\ pending = {}
    /\ \A m \in sent : m.type # "CertificateRequest"

\* C15 (pending hygiene): no entry stays in Pending once committee.round is
\* more than max_gc_rounds above the round at which the entry was inserted.
C15_PendingHygiene ==
    \A e \in pending : round - e[3] <= max_gc_rounds

\* C16 (certificate round-trip): every certificate broadcast in a
\* BatchCertified event is in Storage under its id; the step of lines 441-454
\* either stores and broadcasts the certificate or, on a failed construction
\* or insertion, broadcasts nothing and returns without advancing the round.
C16_CertificateRoundTrip ==
    /\ [](\A c \in OwnCertificates :
             c \in certs /\ contains_certificate(certificate_id(c)))
    /\ [][(sig.pc = "certify" /\ sig'.pc # "certify")
             => \/ /\ sig'.pc = "advance"
                   /\ \E c \in certs' : sent' = sent \cup {certified_event(c)}
                \/ /\ sig'.pc = "recv"
                   /\ UNCHANGED <<sent, certs, round, committees>>]_vars

\* The signature handler has stored and broadcast a certificate for the batch
\* it took and is about to advance the round.
C16_Witness ==
    /\ sig.pc = "advance"
    /\ \E c \in OwnCertificates \cap certs :
          c.header = to_header(sig.taken[1].batch)

\* The handler tasks that have ended: a task ends when its handler panics.
TerminatedHandlers ==
    {h \in {"propose", "signature", "certified"} :
        \/ h = "propose" /\ prop.pc = "panicked"
        \/ h = "signature" /\ sig.pc = "panicked"
        \/ h = "certified" /\ ing[0].pc = "panicked"}

\* C17 (handler loops survive failures): no failure while handling a message
\* ends a handler task.
C17_HandlersSurvive == TerminatedHandlers = {}

\* The ingestion task t is inside a fetch, awaiting its callbacks.
InFetch(t) == ing[t].pc \in {"await_tx", "await_certs"}

\* C18 (fetch termination): with a peer that answers or disconnects and
\* workers that complete, every fetch that awaits callbacks returns; it
\* returns with success, to the next program point of the ingestion, only
\* when no callback is outstanding, and otherwise with the error that ends
\* the handling of the message.
C18_FetchTermination ==
    /\ \A t \in TaskIds : InFetch(t) ~> ~InFetch(t)
    /\ [][\A t \in IngTasks :
             (InFetch(t) /\ ing'[t].pc # ing[t].pc)
                => \/ ing[t].waiting = {} /\ ing'[t].pc \in {"fetch_certs", "store"}
                   \/ ing[t].waiting # {} /\ ing'[t] = IngIdle]_vars

\* The fetch of the previous certificate of CertX has awaited its callback
\* and returned with success: no certificate was stored when it began.
C18_Witness ==
    /\ ing[0].pc = "store"
    /\ ing[0].certificate = <<CertX>>
    /\ certs = {}
    /\ \E m \in sent : m.type = "CertificateRequest"

\* The BatchSignature events sent by the step.
NewSignatures == {e \in sent' \ sent : e.type = "BatchSignature"}

\* C19 (round window for co-signing): a BatchSignature for a header of round
\* r is sent only while r <= committee.round <= r + 1.
C19_RoundWindow ==
    [][\A e \in NewSignatures :
          e.batch_id[2] <= round /\ round <= e.batch_id[2] + 1]_vars

\* The stored certificates a batch id names as previous certificates.
PreviousOf(bid) == {c \in certs : certificate_id(c) \in bid[5]}

\* C20 (previous-certificate check before co-signing): a BatchSignature for
\* a header of round r > 1 is sent only if every previous certificate id of
\* the header is stored with round r - 1, the committee of round r - 1 is
\* stored and the authors of those certificates reach its quorum threshold;
\* a rejection by this check sends nothing.
C20_PreviousCertificatesChecked ==
    /\ [][\A e \in NewSignatures :
             e.batch_id[2] > 1 =>
                /\ \A id \in e.batch_id[5] : contains_certificate(id)
                /\ \A c \in PreviousOf(e.batch_id) : c.header.round = e.batch_id[2] - 1
                /\ (e.batch_id[2] - 1) \in committees
                /\ Cardinality({c.header.author : c \in PreviousOf(e.batch_id)} \cap Members)
                      >= quorum_threshold]_vars
    /\ [][(prop.pc = "verify" /\ prop'.pc = "recv"
           /\ prop'.log \in {"missing previous", "wrong round", "missing committee", "no quorum"})
             => sent' = sent]_vars

\* A header of round 2 was signed.
C20_Witness ==
    /\ prop.pc = "recv"
    /\ prop.log = "signed"
    /\ \E e \in SentSignatures : e.batch_id[2] = 2

\* The round-(R - 1) authors in Storage meet the quorum threshold of the
\* committee stored for R - 1, or R - 1 = 0.
ReadyFor(R) ==
    \/ R - 1 = 0
    \/ /\ (R - 1) \in committees
       /\ Cardinality({c.header.author : c \in {d \in certs : d.header.round = R - 1}}
                         \cap Members) >= quorum_threshold

\* C21 (ready test of the proposal tick): for the round R read at line 186,
\* propose_batch drains the workers, broadcasts BatchPropose and builds the
\* batch only if the ready test holds for R; the batch carries round R and
\* exactly the certificates stored for R - 1; otherwise no worker is drained,
\* nothing is broadcast and the slot is left as it is; and only a batch built
\* this way enters the slot.
C21_ReadyTest ==
    /\ [][(tick.pc = "ready" /\ tick' # tick) =>
             IF ReadyFor(tick.round)
             THEN /\ tick'.pc = "store"
                  /\ tick'.batch[1].round = tick.round
                  /\ tick'.batch[1].previous = {d \in certs : d.header.round = tick.round - 1}
                  /\ \A w \in DOMAIN workers : workers'[w] = <<>>
                  /\ [type |-> "BatchPropose", to |-> "all",
                      header |-> to_header(tick'.batch[1])] \in sent'
             ELSE /\ tick'.pc = "sleep"
                  /\ UNCHANGED <<workers, sent, proposed>>]_vars
    /\ [][(workers' # workers \/ NewProposeBroadcast) => tick.pc = "ready"]_vars
    /\ [][NewBatchInSlot =>
             tick.pc = "store" /\ proposed'[1].batch = tick.batch[1]]_vars

\* The slot holds a batch of round 2 on top of the round-1 certificates of
\* three authors.
C21_Witness ==
    /\ proposed # <<>>
    /\ proposed[1].batch.round = 2
    /\ proposed[1].batch.previous = {CertA, CertB, CertD}

\* The worker with the lowest id whose queue holds the TransmissionId.
FirstWorkerWith(id) ==
    CHOOSE w \in DOMAIN workers :
        /\ \E i \in 1..Len(workers[w]) : workers[w][i].id = id
        /\ \A v \in DOMAIN workers :
              (\E i \in 1..Len(workers[v]) : workers[v][i].id = id) => w <= v

\* The transmission a worker's queue holds under the TransmissionId.
HeldBy(w, id) ==
    LET i == CHOOSE k \in 1..Len(workers[w]) : workers[w][k].id = id
    IN  workers[w][i]

\* The TransmissionIds the workers hold.
WorkerIds ==
    UNION {{workers[w][i].id : i \in 1..Len(workers[w])} : w \in DOMAIN workers}

C23_SignatureMapValid ==
    proposed # <<>> =>
        \A s \in proposed[1].signatures :
            /\ is_committee_member(to_address(s))
            /\ verify(s, to_address(s), batch_id(to_header(proposed[1].batch)), s.stamp)

\* The ingestion task t calls update_committee_to_next_round (line 510).
IngestionRaises(t) == ing[t].pc = "advance" /\ ing'[t].pc = "upd_slot"

\* C24 (effect of certificate ingestion on the round): the ingestion of a
\* certificate of round r raises committee.round only while it is below r,
\* so that it never leaves the round above max(round before, r).
C24_IngestionRound ==
    [][\A t \in IngTasks :
          IngestionRaises(t) => round < ing[t].certificate[1].header.round]_vars

\* The ingestion task t is suspended in fetch_missing_certificates with a
\* callback outstanding.
SuspendedOnCertificates(t) == ing[t].pc = "await_certs" /\ ing[t].waiting # {}

ExpirationClears ==
    \/ tick.pc = "expire" /\ tick'.pc # "expire"
    \/ sig.pc = "clear" /\ sig'.pc # "clear"

\* C26 (the slot is emptied for expiration only when its batch has expired):
\* the write of line 693 never removes from the slot a batch that has not
\* expired.
C26_ClearsOnlyExpired ==
    [][(ExpirationClears /\ proposed # <<>> /\ proposed' = <<>>)
          => is_expired(proposed)]_vars

\* The addresses that have signed the batch in the slot, with its author.
SlotSigners ==
    {s.signer : s \in proposed[1].signatures} \cup {proposed[1].batch.author}

\* The signature handler is about to insert a signature the map already holds.
Redelivered ==
    /\ sig.pc = "insert"
    /\ proposed # <<>>
    /\ sig.signature[1] \in proposed[1].signatures

\* C27 (signature order independence): for a batch that stays in the slot
\* unexpired, whatever the order and the repetitions of the valid signatures
\* delivered, the batch is certified if and only if its signers together with
\* its author meet the quorum threshold: once the handler has returned, a
\* batch still in the slot has no quorum, and every certificate made has
\* one; a signature delivered again leaves the map as it is.
C27_OrderIndependence ==
    /\ []((sig.pc = "recv" /\ proposed # <<>>)
            => Cardinality(SlotSigners \cap Members) < quorum_threshold)
    /\ [](\A c \in OwnCertificates :
            Cardinality(CertificateSigners(c) \cap Members) >= quorum_threshold)
    /\ [][Redelivered => proposed' = proposed]_vars

\* The signature of v1 is delivered again while the map holds it, and the
\* signature of v2 has not arrived.
C27_Witness ==
    /\ Redelivered
    /\ proposed[1].signatures = {sig.signature[1]}
    /\ sig.signature[1].signer = "v1"

\* The signature handler holds the slot's read guard (line 414) and waits
\* for the committee (line 418).
AwaitsCommitteeHoldingSlot == SlotReadHeld /\ CommitteeWriteHeld

\* An ingestion task holds the committee's write guard (line 791) and waits
\* for the slot's write guard (line 799).
AwaitsSlotHoldingCommittee ==
    \E t \in IngTasks : ing[t].pc = "upd_slot" /\ SlotReadHeld

\* C28 (deadlock freedom on the shared locks): no state is reached in which
\* the signature handler waits for the committee while holding the slot and
\* an ingestion task waits for the slot while holding the committee.
C28_NoLockCycle ==
    ~(AwaitsCommitteeHoldingSlot /\ AwaitsSlotHoldingCommittee)

\* The certificates authored by this validator that are stored or were
\* broadcast as BatchCertified.
SelfCertificates ==
    {c \in certs \cup OwnCertificates : c.header.author = Self}

\* C29 (no self-equivocation): the certificates this validator has stored or
\* broadcast under its own authorship are for pairwise distinct rounds.
C29_NoSelfEquivocation ==
    \A c, d \in SelfCertificates : c.header.round = d.header.round => c = d

\* The ingestion task t returns with success from fetch_missing_certificates
\* (line 497) for a certificate above gc_round + 1.
FetchSucceeds(t) ==
    /\ ing[t].pc \in {"fetch_certs", "await_certs"}
    /\ ing'[t].pc = "store"
    /\ fetches_previous(ing[t].certificate[1])

\* The ingestion task t inserts its certificate into Storage (line 503).
Inserts(t) ==
    /\ ing[t].pc = "store"
    /\ ing[t].certificate[1] \notin certs
    /\ ing[t].certificate[1] \in certs'

\* C30 (causal completeness of the stored DAG): fetch_missing_certificates
\* returns success only when every previous certificate id of the header is
\* in Storage, and a certificate of a round above gc_round + 1 is inserted
\* only when all its previous certificates are in Storage.
C30_CausalCompleteness ==
    [][\A t \in IngTasks :
          /\ FetchSucceeds(t) =>
                \A id \in ing[t].certificate[1].header.prev : contains_certificate(id)
          /\ (Inserts(t) /\ fetches_previous(ing[t].certificate[1])) =>
                \A id \in ing[t].certificate[1].header.prev : contains_certificate(id)]_vars

====
